---- MODULE Spec2Model ----
(***************************************************************************)
(* Model of driver.c: the off-time mode-switching firmware of an ATtiny13  *)
(* flashlight driver.  Six bytes live in .noinit SRAM and survive a short  *)
(* power interruption; main() classifies the previous off-time from        *)
(* noinit_decay, advances the mode, and enters one non-returning           *)
(* behaviour.  Every statement of main() that writes .noinit memory is a   *)
(* separate step, so power can be lost between any two of them.            *)
(*                                                                         *)
(* Power model (driver.c:64-86): a short interruption keeps all six bytes; *)
(* a long one leaves noinit_decay nonzero and the other bytes arbitrary.   *)
(* The very first power-on finds arbitrary bytes in all six fields.        *)
(***************************************************************************)
EXTENDS Naturals, Integers, Sequences, FiniteSets

\* ---- bounds of the model ------------------------------------------------
\* power-ons explored in one behaviour
MaxBoots == 4
\* voltage samples read by the monitor loop in one power session
MaxSamples == 9
\* duty values written by ramp() in one power session (one walk up and down
\* the table is 101 writes)
MaxRampSteps == 110

\* byte values found in each .noinit field after a cold start or a decay:
\* zero, the values next to each comparison of main(), and 255 (which ++
\* wraps to 0)
DecaySamples == {0, 1, 255}
ModeSamples == {0, 3, 6, 255}
LvlSamples == {0, 255}
ShortSamples == {0, 2, 255}
StrobeSamples == {0, 1, 255}
StrobeModeSamples == {0, 255}
\* every value of a uint8_t
Byte == 0 .. 255

\* ---- program constants --------------------------------------------------
LastMode == 6
ShortMax == 2
LastStrobeMode == 0
ADC_100 == 185
ADC_75 == 175
ADC_50 == 164
ADC_25 == 154
ADC_0 == 139
ADC_LOW == 123
WarnCount == 4
CritCount == 8
WarnLevel == 5
BlinkLevel == 64

SQUARED == << 4, 4, 4, 5, 6, 7, 8, 9, 10, 12, 14, 16, 18, 21, 24, 27, 30,
              33, 37, 40, 44, 48, 53, 57, 62, 67, 72, 77, 83, 88, 94, 100,
              107, 113, 120, 127, 134, 141, 149, 157, 165, 173, 181, 190,
              198, 207, 216, 226, 235, 245, 255 >>

\* ramp_LUT[] (0-based in the source, 1-based here)
ramp_LUT == SQUARED

\* voltage_blinks[]: ascending thresholds
voltage_blinks == << ADC_0, ADC_25, ADC_50, ADC_75, ADC_100 >>

\* ++x on a uint8_t
Inc8(x) == (x + 1) % 256

VARIABLES
  \* .noinit SRAM
  noinit_decay, noinit_mode, noinit_lvl, noinit_short, noinit_strobe,
  noinit_strobe_mode,
  \* program position: "off", a line of main() ("l358" ...), or a behaviour
  pc,
  \* hardware registers, reset to 0 by power-on reset
  PWM_LVL,      \* OCR0B
  pwm_on,       \* TCCR0A/TCCR0B configured for PWM
  strobe_pin,   \* PORTB bit STROBE_PIN
  adc,          \* "off", "running" (ADSC set), "ready" (ADIF set)
  \* locals of main(), battcheck() and ramp()
  lowbatt_cnt, voltage, blinks, i,
  \* history (not program state)
  boots,        \* power-ons so far
  snap,         \* .noinit contents at this boot's power-on, until dispatch
  latched,      \* line 388 has run since the last long power-off
  classified,   \* line 377 has run in this (or, while off, the last) boot
  samples,      \* monitor samples read in this power session
  mon_write,    \* duty written by the last monitor iteration, or -1
  clean,        \* a long-off boot has been classified, and since then power
                \* was never lost before the line 425 reset
  streak,       \* boots classified short-off in a row, since the last
                \* long-off classification or line 425 reset; -1 before the
                \* first long-off classification
  ramp_n,       \* duty values written by ramp() in this power session
  warn_at       \* Len(samples) at the monitor's last warning write, or 0

noinit == << noinit_decay, noinit_mode, noinit_lvl, noinit_short,
             noinit_strobe, noinit_strobe_mode >>
regs == << PWM_LVL, pwm_on, strobe_pin, adc >>
locals == << lowbatt_cnt, voltage, blinks, i >>
track == << clean, streak, ramp_n, warn_at >>
hist == << boots, snap, latched, classified, samples, mon_write, track >>
vars == << noinit, pc, regs, locals, hist >>

NoSnap == [decay |-> 0, mode |-> 0, lvl |-> 0, short |-> 0, strobe |-> 0,
           strobe_mode |-> 0, prev |-> FALSE, valid |-> FALSE]

\* prev: the boot before this one completed its classification
Mem(d, m, l, s, st, sm) ==
  [decay |-> d, mode |-> m, lvl |-> l, short |-> s, strobe |-> st,
   strobe_mode |-> sm, prev |-> classified, valid |-> TRUE]

\* registers and locals after a power-on reset
ResetVolatile ==
  /\ PWM_LVL' = 0 /\ pwm_on' = FALSE /\ strobe_pin' = FALSE /\ adc' = "off"
  /\ lowbatt_cnt' = 0 /\ voltage' = 0 /\ blinks' = 0 /\ i' = 0
  /\ samples' = << >> /\ mon_write' = -1
  /\ ramp_n' = 0 /\ warn_at' = 0

Init ==
  /\ noinit_decay \in DecaySamples
  /\ noinit_mode \in ModeSamples
  /\ noinit_lvl \in LvlSamples
  /\ noinit_short \in ShortSamples
  /\ noinit_strobe \in StrobeSamples
  /\ noinit_strobe_mode \in StrobeModeSamples
  /\ pc = "off"
  /\ PWM_LVL = 0 /\ pwm_on = FALSE /\ strobe_pin = FALSE /\ adc = "off"
  /\ lowbatt_cnt = 0 /\ voltage = 0 /\ blinks = 0 /\ i = 0
  /\ boots = 0 /\ snap = NoSnap /\ latched = FALSE /\ classified = FALSE
  /\ samples = << >> /\ mon_write = -1
  /\ clean = FALSE /\ streak = -1 /\ ramp_n = 0 /\ warn_at = 0

Powered == pc # "off"

\* positions after the line 425 reset of noinit_short
Settled == pc \in {"l427", "monitor", "halted", "battcheck", "battblink",
                   "battblink_on", "beacon", "beacon_on", "ramp_up",
                   "ramp_down"}

\* ---- power ---------------------------------------------------------------
\* power is removed at any point of the program
PowerLoss ==
  /\ Powered
  /\ pc' = "off"
  /\ ResetVolatile
  /\ snap' = NoSnap
  /\ clean' = (clean /\ Settled)
  /\ UNCHANGED << noinit, boots, latched, classified, streak >>

\* power returns before the SRAM has decayed: all six bytes are retained
PowerOnShort ==
  /\ pc = "off" /\ boots < MaxBoots
  /\ pc' = "l358"
  /\ boots' = boots + 1
  /\ snap' = Mem(noinit_decay, noinit_mode, noinit_lvl, noinit_short,
                 noinit_strobe, noinit_strobe_mode)
  /\ classified' = FALSE
  /\ UNCHANGED << noinit, regs, locals, latched, samples, mon_write, track >>

\* power returns after the SRAM has decayed: the flag is nonzero and the
\* other bytes are invalid
PowerOnLong ==
  /\ pc = "off" /\ boots < MaxBoots
  /\ noinit_decay' \in DecaySamples \ {0}
  /\ noinit_mode' \in ModeSamples
  /\ noinit_lvl' \in LvlSamples
  /\ noinit_short' \in ShortSamples
  /\ noinit_strobe' \in StrobeSamples
  /\ noinit_strobe_mode' \in StrobeModeSamples
  /\ pc' = "l358"
  /\ boots' = boots + 1
  /\ latched' = FALSE
  /\ classified' = FALSE
  /\ snap' = Mem(noinit_decay', noinit_mode', noinit_lvl', noinit_short',
                 noinit_strobe', noinit_strobe_mode')
  /\ UNCHANGED << regs, locals, samples, mon_write, track >>

\* ---- main(): press classification (lines 358-395) -------------------------
\* variant: the sense of the decay test is inverted
L358Inverted ==
  /\ pc = "l358"
  /\ pc' = IF noinit_decay = 0 THEN "l360" ELSE "l373"
  /\ clean' = (noinit_decay = 0 \/ clean)
  /\ streak' = IF noinit_decay = 0 THEN 0
               ELSE IF streak >= 0 THEN streak + 1 ELSE -1
  /\ UNCHANGED << noinit, regs, locals, boots, snap, latched, classified,
                  samples, mon_write, ramp_n, warn_at >>

\* if (noinit_decay)
L358 ==
  /\ pc = "l358"
  /\ pc' = IF noinit_decay # 0 THEN "l360" ELSE "l373"
  /\ clean' = (noinit_decay # 0 \/ clean)
  /\ streak' = IF noinit_decay # 0 THEN 0
               ELSE IF streak >= 0 THEN streak + 1 ELSE -1
  /\ UNCHANGED << noinit, regs, locals, boots, snap, latched, classified,
                  samples, mon_write, ramp_n, warn_at >>

L360 ==
  /\ pc = "l360"
  /\ noinit_mode' = 0
  /\ pc' = "l361"
  /\ UNCHANGED << noinit_decay, noinit_lvl, noinit_short, noinit_strobe,
                  noinit_strobe_mode, regs, locals, hist >>

L361 ==
  /\ pc = "l361"
  /\ noinit_short' = 0
  /\ pc' = "l362"
  /\ UNCHANGED << noinit_decay, noinit_mode, noinit_lvl, noinit_strobe,
                  noinit_strobe_mode, regs, locals, hist >>

\* variant: the fresh-session reset leaves the strobe flag alone
L362Skip ==
  /\ pc = "l362"
  /\ pc' = "l363"
  /\ UNCHANGED << noinit, regs, locals, hist >>

L362 ==
  /\ pc = "l362"
  /\ noinit_strobe' = 0
  /\ pc' = "l363"
  /\ UNCHANGED << noinit_decay, noinit_mode, noinit_lvl, noinit_short,
                  noinit_strobe_mode, regs, locals, hist >>

L363 ==
  /\ pc = "l363"
  /\ noinit_strobe_mode' = 0
  /\ pc' = "l364"
  /\ UNCHANGED << noinit_decay, noinit_mode, noinit_lvl, noinit_short,
                  noinit_strobe, regs, locals, hist >>

L364 ==
  /\ pc = "l364"
  /\ noinit_lvl' = 0
  /\ pc' = "l377"
  /\ UNCHANGED << noinit_decay, noinit_mode, noinit_short, noinit_strobe,
                  noinit_strobe_mode, regs, locals, hist >>

\* ++noinit_mode
L373 ==
  /\ pc = "l373"
  /\ noinit_mode' = Inc8(noinit_mode)
  /\ pc' = "l374"
  /\ UNCHANGED << noinit_decay, noinit_lvl, noinit_short, noinit_strobe,
                  noinit_strobe_mode, regs, locals, hist >>

\* variant: a short press also leaves the extended group
L374Clear ==
  /\ pc = "l374"
  /\ noinit_short' = Inc8(noinit_short)
  /\ noinit_strobe' = 0
  /\ pc' = "l377"
  /\ UNCHANGED << noinit_decay, noinit_mode, noinit_lvl, noinit_strobe_mode,
                  regs, locals, hist >>

\* ++noinit_short
L374 ==
  /\ pc = "l374"
  /\ noinit_short' = Inc8(noinit_short)
  /\ pc' = "l377"
  /\ UNCHANGED << noinit_decay, noinit_mode, noinit_lvl, noinit_strobe,
                  noinit_strobe_mode, regs, locals, hist >>

\* noinit_decay = 0
L377 ==
  /\ pc = "l377"
  /\ noinit_decay' = 0
  /\ classified' = TRUE
  /\ pc' = "l381"
  /\ UNCHANGED << noinit_mode, noinit_lvl, noinit_short, noinit_strobe,
                  noinit_strobe_mode, regs, locals, boots, snap, latched,
                  samples, mon_write, track >>

\* variants of the wraparound test: ">=" and an off-by-one limit
ModeWrapGE(m) == IF m >= LastMode THEN 0 ELSE m

ModeWrapLate(m) == IF m > LastMode + 1 THEN 0 ELSE m

\* if (noinit_mode > 6) noinit_mode = 0
ModeWrap(m) == IF m > LastMode THEN 0 ELSE m

L381 ==
  /\ pc = "l381"
  /\ noinit_mode' = ModeWrap(noinit_mode)
  /\ pc' = "l386"
  /\ UNCHANGED << noinit_decay, noinit_lvl, noinit_short, noinit_strobe,
                  noinit_strobe_mode, regs, locals, hist >>

\* variants of the latch test: one press early, one press late
LatchCondEarly(short, strobe) == short >= ShortMax /\ strobe = 0

LatchCondLate(short, strobe) == short > ShortMax + 1 /\ strobe = 0

\* if (noinit_short > 2 && !noinit_strobe)
LatchCond(short, strobe) == short > ShortMax /\ strobe = 0

L386 ==
  /\ pc = "l386"
  /\ pc' = IF LatchCond(noinit_short, noinit_strobe) THEN "l388" ELSE "l392"
  /\ UNCHANGED << noinit, regs, locals, hist >>

L388 ==
  /\ pc = "l388"
  /\ noinit_strobe' = 1
  /\ latched' = TRUE
  /\ pc' = "l389"
  /\ UNCHANGED << noinit_decay, noinit_mode, noinit_lvl, noinit_short,
                  noinit_strobe_mode, regs, locals, boots, snap, classified,
                  samples, mon_write, track >>

L389 ==
  /\ pc = "l389"
  /\ noinit_strobe_mode' = 0
  /\ pc' = "l392"
  /\ UNCHANGED << noinit_decay, noinit_mode, noinit_lvl, noinit_short,
                  noinit_strobe, regs, locals, hist >>

\* if (noinit_strobe_mode > 0) noinit_strobe_mode = 0
StrobeModeWrap(sm) == IF sm > LastStrobeMode THEN 0 ELSE sm

L392 ==
  /\ pc = "l392"
  /\ noinit_strobe_mode' = StrobeModeWrap(noinit_strobe_mode)
  /\ pc' = "l402"
  /\ UNCHANGED << noinit_decay, noinit_mode, noinit_lvl, noinit_short,
                  noinit_strobe, regs, locals, hist >>

\* ---- main(): dispatch (lines 398-454) -------------------------------------
\* if (noinit_strobe) switch (noinit_strobe_mode) { case 0: strobe(); }
StrobeSelected(strobe, sm) == strobe # 0 /\ sm = 0

\* variant: the PWM timer is configured before the extended-mode dispatch
L402WithPwm ==
  /\ pc = "l402"
  /\ pwm_on' = TRUE
  /\ pc' = IF StrobeSelected(noinit_strobe, noinit_strobe_mode)
           THEN "strobe" ELSE "l412"
  /\ snap' = IF StrobeSelected(noinit_strobe, noinit_strobe_mode)
             THEN NoSnap ELSE snap
  /\ UNCHANGED << noinit, PWM_LVL, strobe_pin, adc, locals, boots, latched,
                  classified, samples, mon_write, track >>

L402 ==
  /\ pc = "l402"
  /\ pc' = IF StrobeSelected(noinit_strobe, noinit_strobe_mode)
           THEN "strobe" ELSE "l412"
  /\ snap' = IF StrobeSelected(noinit_strobe, noinit_strobe_mode)
             THEN NoSnap ELSE snap
  /\ UNCHANGED << noinit, regs, locals, boots, latched, classified, samples,
                  mon_write, track >>

\* TCCR0A = PWM_TCR; TCCR0B = PWM_SCL; PWM_LVL = 0; lowbatt_cnt = 0;
\* ADC_on() starts the first conversion; then _delay_ms(25) begins
L412 ==
  /\ pc = "l412"
  /\ pwm_on' = TRUE
  /\ PWM_LVL' = 0
  /\ lowbatt_cnt' = 0
  /\ adc' = "running"
  /\ pc' = "l424"
  /\ UNCHANGED << noinit, strobe_pin, voltage, blinks, i, hist >>

\* variant: the settle window ends without the reset of noinit_short
L425Skip ==
  /\ pc = "l424"
  /\ streak' = IF streak >= 0 THEN 0 ELSE -1
  /\ pc' = "l427"
  /\ UNCHANGED << noinit, regs, locals, boots, snap, latched, classified,
                  samples, mon_write, clean, ramp_n, warn_at >>

\* the 25 ms settle window has elapsed: noinit_short = 0
L425 ==
  /\ pc = "l424"
  /\ noinit_short' = 0
  /\ streak' = IF streak >= 0 THEN 0 ELSE -1
  /\ pc' = "l427"
  /\ UNCHANGED << noinit_decay, noinit_mode, noinit_lvl, noinit_strobe,
                  noinit_strobe_mode, regs, locals, boots, snap, latched,
                  classified, samples, mon_write, clean, ramp_n, warn_at >>

\* variant: mode 0 is the 0x03 moon level of the header table
FixedLevelMoon(m) == CASE m = 0 -> 3 [] m = 1 -> 16 [] m = 2 -> 64 [] m = 3 -> 255

\* the fixed levels of cases 0..3
FixedLevel(m) == CASE m = 0 -> 5 [] m = 1 -> 16 [] m = 2 -> 64 [] m = 3 -> 255

\* switch (noinit_mode): the behaviour entered by each case; a value with no
\* case falls through to the monitor loop
ModeTarget(m) ==
  CASE m \in 0 .. 3 -> "monitor"
    [] m = 4 -> "battcheck"
    [] m = 5 -> "beacon"
    [] m = 6 -> "ramp_up"
    [] OTHER -> "monitor"

L427 ==
  /\ pc = "l427"
  /\ pc' = ModeTarget(noinit_mode)
  /\ PWM_LVL' = IF noinit_mode \in 0 .. 3 THEN FixedLevel(noinit_mode)
                ELSE PWM_LVL
  /\ i' = 0
  /\ snap' = NoSnap
  /\ UNCHANGED << noinit, pwm_on, strobe_pin, adc, lowbatt_cnt, voltage,
                  blinks, boots, latched, classified, samples, mon_write,
                  track >>

\* ---- ADC hardware ----------------------------------------------------------
\* a started conversion completes and sets ADIF
AdcComplete ==
  /\ Powered /\ adc = "running"
  /\ adc' = "ready"
  /\ UNCHANGED << noinit, pc, PWM_LVL, pwm_on, strobe_pin, locals, hist >>

\* ---- voltage monitor loop (lines 468-486) ----------------------------------
\* voltage samples fed to the monitor: both sides of ADC_LOW
MonitorSamples == {ADC_LOW - 1, ADC_LOW}

\* voltage < ADC_LOW
LowBatt(v) == v < ADC_LOW

\* variant: a good sample does not reset the counter
NextLowCntSticky(cnt, v) == IF LowBatt(v) THEN Inc8(cnt) ELSE cnt

\* if (voltage < ADC_LOW) ++lowbatt_cnt; else lowbatt_cnt = 0;
NextLowCnt(cnt, v) == IF LowBatt(v) THEN Inc8(cnt) ELSE 0

\* variant: the warning comes one sample late
WarnNowLate(cnt) == cnt = WarnCount + 1

\* variant: the warning level is rewritten on every later low sample
WarnNowGE(cnt) == cnt >= WarnCount

\* if (lowbatt_cnt == 4)
WarnNow(cnt) == cnt = WarnCount

\* variant: the shutdown test is off by one
CritNowLate(cnt) == cnt > CritCount

\* if (lowbatt_cnt >= 8)
CritNow(cnt) == cnt >= CritCount

\* variant: the CPU wakes and sleep_mode() returns into the loop
sleep_returns == "monitor"

\* sleep_mode() in SLEEP_MODE_PWR_DOWN: no interrupt source is enabled, so
\* the CPU stays halted until power is removed
sleep_mode == "halted"

\* variant: a good sample puts the mode's own level back
MonitorDutyRestore(cnt, duty) ==
  IF CritNow(cnt) THEN 0
  ELSE IF WarnNow(cnt) THEN WarnLevel
  ELSE IF cnt = 0 /\ noinit_mode \in 0 .. 3 THEN FixedLevel(noinit_mode)
  ELSE duty

\* the duty register after lines 475-477, from the new counter value
MonitorDuty(cnt, duty) ==
  IF CritNow(cnt) THEN 0 ELSE IF WarnNow(cnt) THEN WarnLevel ELSE duty

\* one iteration whose "reading is ready" test succeeds
MonitorSample ==
  /\ pc = "monitor" /\ adc = "ready" /\ Len(samples) < MaxSamples
  /\ \E v \in MonitorSamples :
       LET cnt == NextLowCnt(lowbatt_cnt, v) IN
         /\ voltage' = v
         /\ samples' = Append(samples, v)
         /\ lowbatt_cnt' = cnt
         /\ PWM_LVL' = MonitorDuty(cnt, PWM_LVL)
         /\ warn_at' = IF WarnNow(cnt) /\ ~CritNow(cnt)
                       THEN Len(samples) + 1 ELSE warn_at
         /\ mon_write' = IF CritNow(cnt) THEN 0
                         ELSE IF WarnNow(cnt) THEN WarnLevel ELSE -1
         /\ pc' = IF CritNow(cnt) THEN sleep_mode ELSE "monitor"
         /\ adc' = IF CritNow(cnt) /\ sleep_mode = "halted" THEN "ready"
                   ELSE "running"
  /\ UNCHANGED << noinit, pwm_on, strobe_pin, blinks, i, boots, snap,
                  latched, classified, clean, streak, ramp_n >>

\* ---- battcheck() (lines 327-353) -------------------------------------------
\* variant: a sample equal to a threshold counts
ExceedsOrEqual(v, t) == v >= t

\* voltage > pgm_read_byte(voltage_blinks + i)
Exceeds(v, t) == v > t

\* variant: the loop stops one entry short of the table
RECURSIVE BlinkLoopShort(_, _, _)
BlinkLoopShort(v, k, b) ==
  IF k < Len(voltage_blinks) - 1
  THEN BlinkLoopShort(v, k + 1,
                      IF Exceeds(v, voltage_blinks[k + 1]) THEN b + 1 ELSE b)
  ELSE b

\* for (i=0; i<sizeof(voltage_blinks); i++) if (...) blinks++;
RECURSIVE BlinkLoop(_, _, _)
BlinkLoop(v, k, b) ==
  IF k < Len(voltage_blinks)
  THEN BlinkLoop(v, k + 1, IF Exceeds(v, voltage_blinks[k + 1]) THEN b + 1
                           ELSE b)
  ELSE b

\* PWM_LVL = 0; two conversions, the second is kept; count the thresholds
BattMeasure ==
  /\ pc = "battcheck"
  /\ \E v \in Byte :
       /\ voltage' = v
       /\ blinks' = BlinkLoop(v, 0, 0)
  /\ PWM_LVL' = 0
  /\ adc' = "ready"
  /\ i' = 0
  /\ pc' = "battblink"
  /\ UNCHANGED << noinit, pwm_on, strobe_pin, lowbatt_cnt, hist >>

\* one blink: PWM_LVL = 0x40 ...
BattBlinkOn ==
  /\ pc = "battblink" /\ i < blinks
  /\ PWM_LVL' = BlinkLevel
  /\ pc' = "battblink_on"
  /\ UNCHANGED << noinit, pwm_on, strobe_pin, adc, locals, hist >>

\* ... PWM_LVL = 0; i++
BattBlinkOff ==
  /\ pc = "battblink_on"
  /\ PWM_LVL' = 0
  /\ i' = i + 1
  /\ pc' = "battblink"
  /\ UNCHANGED << noinit, pwm_on, strobe_pin, adc, lowbatt_cnt, voltage,
                  blinks, hist >>

\* variant: battcheck() returns after one readout and main() goes on
BattRepeatReturns ==
  /\ pc = "battblink" /\ i >= blinks
  /\ pc' = "monitor"
  /\ UNCHANGED << noinit, regs, locals, hist >>

\* the blink loop ends and while (1) starts over
BattRepeat ==
  /\ pc = "battblink" /\ i >= blinks
  /\ pc' = "battcheck"
  /\ UNCHANGED << noinit, regs, locals, hist >>

\* ---- pwm_strobe() (lines 268-276): the beacon ------------------------------
BeaconOn ==
  /\ pc = "beacon"
  /\ PWM_LVL' = 255
  /\ pc' = "beacon_on"
  /\ UNCHANGED << noinit, pwm_on, strobe_pin, adc, locals, hist >>

BeaconOff ==
  /\ pc = "beacon_on"
  /\ PWM_LVL' = 0
  /\ pc' = "beacon"
  /\ UNCHANGED << noinit, pwm_on, strobe_pin, adc, locals, hist >>

\* ---- strobe() (lines 280-288) ----------------------------------------------
StrobeOn ==
  /\ pc = "strobe"
  /\ strobe_pin' = TRUE
  /\ pc' = "strobe_on"
  /\ UNCHANGED << noinit, PWM_LVL, pwm_on, adc, locals, hist >>

StrobeOff ==
  /\ pc = "strobe_on"
  /\ strobe_pin' = FALSE
  /\ pc' = "strobe"
  /\ UNCHANGED << noinit, PWM_LVL, pwm_on, adc, locals, hist >>

\* ---- ramp() (lines 230-246) -------------------------------------------------
\* i is the 0-based index of the source
RampWrite ==
  /\ PWM_LVL' = ramp_LUT[i + 1]
  /\ noinit_lvl' = ramp_LUT[i + 1]
  /\ ramp_n < MaxRampSteps
  /\ ramp_n' = ramp_n + 1
  /\ UNCHANGED << noinit_decay, noinit_mode, noinit_short, noinit_strobe,
                  noinit_strobe_mode, pwm_on, strobe_pin, adc, lowbatt_cnt,
                  voltage, blinks, boots, snap, latched, classified, samples,
                  mon_write, clean, streak, warn_at >>

\* for (i = 0; i < sizeof(ramp_LUT); i++)
RampUpStep ==
  /\ pc = "ramp_up" /\ i < Len(ramp_LUT)
  /\ RampWrite
  /\ i' = i + 1
  /\ pc' = "ramp_up"

\* variant: the walk back starts one entry below the top
RampUpExitSkip ==
  /\ pc = "ramp_up" /\ i >= Len(ramp_LUT)
  /\ i' = Len(ramp_LUT) - 2
  /\ pc' = "ramp_down"
  /\ UNCHANGED << noinit, regs, lowbatt_cnt, voltage, blinks, hist >>

RampUpExit ==
  /\ pc = "ramp_up" /\ i >= Len(ramp_LUT)
  /\ i' = Len(ramp_LUT) - 1
  /\ pc' = "ramp_down"
  /\ UNCHANGED << noinit, regs, lowbatt_cnt, voltage, blinks, hist >>

\* for (i = sizeof(ramp_LUT) - 1; i > 0; i--)
RampDownStep ==
  /\ pc = "ramp_down" /\ i > 0
  /\ RampWrite
  /\ i' = i - 1
  /\ pc' = "ramp_down"

RampDownExit ==
  /\ pc = "ramp_down" /\ i = 0
  /\ i' = 0
  /\ pc' = "ramp_up"
  /\ UNCHANGED << noinit, regs, lowbatt_cnt, voltage, blinks, hist >>

Next ==
  \/ PowerLoss \/ PowerOnShort \/ PowerOnLong
  \/ L358 \/ L360 \/ L361 \/ L362 \/ L363 \/ L364 \/ L373 \/ L374
  \/ L377 \/ L381 \/ L386 \/ L388 \/ L389 \/ L392
  \/ L402 \/ L412 \/ L425 \/ L427
  \/ AdcComplete \/ MonitorSample
  \/ BattMeasure \/ BattBlinkOn \/ BattBlinkOff \/ BattRepeat
  \/ BeaconOn \/ BeaconOff \/ StrobeOn \/ StrobeOff
  \/ RampUpStep \/ RampUpExit \/ RampDownStep \/ RampDownExit

\* ---- properties -------------------------------------------------------------
\* classification is complete and no behaviour has been entered yet
PreDispatch == pc \in {"l402", "l412", "l424", "l427"}

\* positions of the long-off branch
LongBranch == pc \in {"l360", "l361", "l362", "l363", "l364"}

\* positions reached only through the regular (non-strobe) path
RegularPath == pc \in {"l412", "l424", "l427", "monitor", "halted",
                       "battcheck", "battblink", "battblink_on", "beacon",
                       "beacon_on", "ramp_up", "ramp_down"}

ShortOffBoot == snap.valid /\ snap.decay = 0
LongOffBoot == snap.valid /\ snap.decay # 0

\* C1: a short-off boot that starts with ModeIndex m in 0..6 dispatches with
\* ModeIndex (m+1) mod 7, which is in 0..6; from m = 6 it dispatches with 0.
C1_ShortOffAdvancesModulo7 ==
  (PreDispatch /\ ShortOffBoot /\ snap.mode \in 0 .. 6)
    => /\ noinit_mode = (snap.mode + 1) % 7
       /\ noinit_mode \in 0 .. 6
       /\ (snap.mode = 6 => noinit_mode = 0)

C1_Witness ==
  pc = "l427" /\ ShortOffBoot /\ snap.mode = 6 /\ noinit_mode = 0

\* C2: whatever bytes the six fields hold at power-on, dispatch is reached
\* with ModeIndex in 0..6 and StrobeModeIndex 0.
C2_DispatchIndicesInRange ==
  PreDispatch => (noinit_mode \in 0 .. 6 /\ noinit_strobe_mode = 0)

\* a boot that starts from the bytes left by a boot that lost power between
\* the increment and the wraparound
C2_Witness ==
  pc = "l402" /\ snap.valid /\ snap.mode = 7 /\ snap.strobe_mode = 255

\* C3: once line 388 has latched StrobeGroupFlag, the flag stays set and only
\* the strobe is dispatched until a long power-off; the flag goes from set to
\* clear only in a boot classified long-off (decay flag nonzero).
C3_LatchHoldsUntilLongOff ==
  [][ /\ latched' => (noinit_strobe' # 0 /\ ~RegularPath')
      /\ (noinit_strobe # 0 /\ noinit_strobe' = 0) => noinit_decay' # 0
    ]_vars

\* the strobe runs in a short-off boot after the boot that latched
C3_Witness ==
  latched /\ pc = "strobe_on" /\ noinit_short >= 4 /\ boots >= 2

\* C4: a long-off boot dispatches with ModeIndex, ShortPressCount,
\* StrobeGroupFlag, StrobeModeIndex and RampLevel all 0, does not take the
\* strobe, and its switch enters regular mode 0 (duty 0x05).
C4_LongOffResetsAll ==
  [][ (PreDispatch /\ LongOffBoot)
        => /\ noinit_mode = 0 /\ noinit_short = 0 /\ noinit_strobe = 0
           /\ noinit_strobe_mode = 0 /\ noinit_lvl = 0
           /\ pc' \in {"off", "l412", "l424", "l427", "monitor"}
           /\ pc' = "monitor" => PWM_LVL' = 5
    ]_vars

C4_Witness ==
  /\ pc = "l427" /\ LongOffBoot
  /\ snap.mode = 6 /\ snap.short = 2 /\ snap.strobe = 1
  /\ snap.strobe_mode = 255 /\ snap.lvl = 255

\* C5: once line 377 has run the decay flag is 0 for the rest of the power
\* session, and a boot that finds the flag 0 takes the short-off branch: it
\* never enters the reset branch, and at line 377 ModeIndex and
\* ShortPressCount are the power-on values plus one.
C5_DecayClearedThenShortOff ==
  /\ (Powered /\ classified) => noinit_decay = 0
  /\ ShortOffBoot => ~LongBranch
  /\ (ShortOffBoot /\ pc = "l377")
       => /\ noinit_mode = (snap.mode + 1) % 256
          /\ noinit_short = (snap.short + 1) % 256

\* a boot that follows a boot which completed classification
C5_Witness ==
  /\ pc = "l377" /\ ShortOffBoot /\ snap.prev
  /\ noinit_mode = snap.mode + 1 /\ noinit_short = snap.short + 1

\* number of samples below 123 at the end of a sample history
RECURSIVE TrailingLow(_)
TrailingLow(sq) ==
  IF sq = << >> \/ sq[Len(sq)] >= 123 THEN 0
  ELSE 1 + TrailingLow(SubSeq(sq, 1, Len(sq) - 1))

InBattBlink == pc \in {"battblink", "battblink_on"}

\* C6: the blink count battcheck computes for a sample v is the number of
\* thresholds among 139,154,164,175,185 that v strictly exceeds; it is in
\* 0..5, and a sample equal to a threshold does not count that threshold.
C6_BlinksCountThresholdsExceeded ==
  InBattBlink
    => /\ blinks = Cardinality({t \in {139, 154, 164, 175, 185} : voltage > t})
       /\ blinks \in 0 .. 5
       /\ (voltage = 139 => blinks = 0)
       /\ (voltage = 154 => blinks = 1)
       /\ (voltage = 164 => blinks = 2)
       /\ (voltage = 175 => blinks = 3)
       /\ (voltage = 185 => blinks = 4)

C6_Witness == pc = "battblink_on" /\ voltage = 175 /\ blinks = 3

\* C7 as stated: samples 100,140,150,160,170,180,190 give blink counts
\* 0,0,1,2,3,4,5.
C7_Original ==
  InBattBlink
    => /\ (voltage = 100 => blinks = 0)
       /\ (voltage = 140 => blinks = 0)
       /\ (voltage = 150 => blinks = 1)
       /\ (voltage = 160 => blinks = 2)
       /\ (voltage = 170 => blinks = 3)
       /\ (voltage = 180 => blinks = 4)
       /\ (voltage = 190 => blinks = 5)

\* C7 amended: samples 100,140,150,160,170,180,190 give blink counts
\* 0,1,1,2,3,4,5 (140 exceeds the first threshold 139).
C7_SampleBlinkCounts ==
  InBattBlink
    => /\ (voltage = 100 => blinks = 0)
       /\ (voltage = 140 => blinks = 1)
       /\ (voltage = 150 => blinks = 1)
       /\ (voltage = 160 => blinks = 2)
       /\ (voltage = 170 => blinks = 3)
       /\ (voltage = 180 => blinks = 4)
       /\ (voltage = 190 => blinks = 5)

C7_Witness == pc = "battblink" /\ voltage = 140 /\ blinks = 1 /\ i = 1

InMonitor == pc \in {"monitor", "halted"}

\* C8: the monitor writes the warning level 0x05 to the duty register at the
\* 4th consecutive low sample and only then; the 5th, 6th and 7th
\* consecutive low samples write nothing and do not halt the device.
C8_WarnAtFourthLowSample ==
  (InMonitor /\ samples # << >>)
    => /\ (TrailingLow(samples) = 4 => (mon_write = 5 /\ PWM_LVL = 5))
       /\ (mon_write = 5 => TrailingLow(samples) = 4)
       /\ (TrailingLow(samples) \in 5 .. 7
             => (mon_write = -1 /\ pc = "monitor"))

\* the 7th consecutive low sample has been read in mode 3 (duty was 0xFF)
C8_Witness ==
  /\ pc = "monitor" /\ noinit_mode = 3 /\ TrailingLow(samples) = 7
  /\ PWM_LVL = 5 /\ mon_write = -1

\* C9: reading the 8th consecutive low sample writes duty 0 and halts; from
\* the halted state the only step is the removal of power, so no state
\* changes and the zero write stays the last write.
C9_ShutdownIsTerminal ==
  [][ /\ (samples' # samples /\ TrailingLow(samples') = 8)
         => (pc' = "halted" /\ PWM_LVL' = 0 /\ mon_write' = 0)
      /\ pc = "halted" => (pc' = "off" /\ PWM_LVL = 0 /\ mon_write = 0)
    ]_vars

C9_Witness ==
  /\ pc = "halted" /\ PWM_LVL = 0 /\ Len(samples) = 8
  /\ TrailingLow(samples) = 8 /\ noinit_mode = 2

\* C10: the counter equals the number of low samples read since the last
\* sample >= 123 (such a sample leaves it 0), and the device halts only with
\* at least 8 low samples in a row at the end of the history.
C10_NonLowSampleResetsCounter ==
  InMonitor
    => /\ lowbatt_cnt = TrailingLow(samples)
       /\ ((samples # << >> /\ samples[Len(samples)] >= 123)
             => (lowbatt_cnt = 0 /\ pc = "monitor"))
       /\ (pc = "halted" => TrailingLow(samples) >= 8)

\* seven low samples, one good sample: the counter is 0 and the light is on
C10_Witness ==
  /\ pc = "monitor" /\ Len(samples) = 8 /\ samples[8] = 123
  /\ TrailingLow(SubSeq(samples, 1, 7)) = 7 /\ lowbatt_cnt = 0

StrobePcs == {"strobe", "strobe_on"}
BattPcs == {"battcheck", "battblink", "battblink_on"}
BeaconPcs == {"beacon", "beacon_on"}
RampPcs == {"ramp_up", "ramp_down"}
MonitorPcs == {"monitor", "halted"}

\* C11: the monitor loop is entered only from the switch at line 427 with
\* StrobeGroupFlag clear and ModeIndex in 0..3; once the strobe, the battery
\* check, the beacon or the ramp runs, control stays in that behaviour until
\* power is lost, and the monitor neither warns nor shuts down.
C11_MonitorOnlyAfterFixedLevel ==
  [][ /\ (pc' = "monitor" /\ pc # "monitor")
         => (pc = "l427" /\ noinit_strobe = 0 /\ noinit_mode \in 0 .. 3)
      /\ pc \in StrobePcs => pc' \in StrobePcs \cup {"off"}
      /\ pc \in BattPcs => pc' \in BattPcs \cup {"off"}
      /\ pc \in BeaconPcs => pc' \in BeaconPcs \cup {"off"}
      /\ pc \in RampPcs => pc' \in RampPcs \cup {"off"}
      /\ pc \in StrobePcs \cup BattPcs \cup BeaconPcs \cup RampPcs
         => (mon_write' = -1 /\ warn_at' = 0 /\ samples' = << >>)
    ]_vars

\* the battery check starts its second readout
C11_Witness ==
  pc = "battcheck" /\ adc = "ready" /\ voltage = 200 /\ blinks = 5 /\ i = 5

\* the latch of lines 386-390 applies to this boot
LatchCase == snap.strobe = 0 /\ (snap.short + 1) % 256 > 2

\* C13 as stated: in a short-off boot that starts with StrobeModeIndex 0,
\* StrobeGroupFlag and StrobeModeIndex at dispatch equal their power-on
\* values.
C13_Original ==
  (PreDispatch /\ ShortOffBoot /\ snap.strobe_mode = 0)
    => (noinit_strobe = snap.strobe /\ noinit_strobe_mode = snap.strobe_mode)

\* C13 amended: the short-off branch (lines 373-374) adds one to ModeIndex
\* and ShortPressCount and leaves StrobeGroupFlag, StrobeModeIndex and
\* RampLevel alone; in a short-off boot that starts with StrobeModeIndex 0,
\* StrobeModeIndex and RampLevel at dispatch equal their power-on values,
\* and so does StrobeGroupFlag unless it was clear and the incremented
\* ShortPressCount exceeds 2, in which case it is 1.
C13_ShortOffFrame ==
  /\ (ShortOffBoot /\ pc = "l377")
       => /\ noinit_mode = (snap.mode + 1) % 256
          /\ noinit_short = (snap.short + 1) % 256
          /\ noinit_strobe = snap.strobe
          /\ noinit_strobe_mode = snap.strobe_mode
          /\ noinit_lvl = snap.lvl
  /\ (PreDispatch /\ ShortOffBoot /\ snap.strobe_mode = 0)
       => /\ noinit_strobe_mode = snap.strobe_mode
          /\ noinit_lvl = snap.lvl
          /\ noinit_strobe = IF LatchCase THEN 1 ELSE snap.strobe

C13_Witness ==
  /\ pc = "l402" /\ ShortOffBoot /\ snap.strobe_mode = 0
  /\ snap.strobe = 0 /\ snap.short = 2 /\ noinit_strobe = 1

\* C14: after a long-off boot, as long as no boot loses power before the
\* line 425 reset, StrobeGroupFlag stays clear, line 388 never runs and
\* every boot goes to the regular switch, never to the strobe.
C14_SettledCyclingStaysRegular ==
  (clean /\ ~(LongOffBoot /\ pc \in {"l358", "l360", "l361", "l362"}))
    => /\ noinit_strobe = 0
       /\ ~latched
       /\ pc \notin {"l388", "l389", "strobe", "strobe_on"}
       /\ (pc \in {"off", "l358"} => noinit_short = 0)

\* the third short-off boot after a long-off boot, all of them settled
C14_Witness ==
  clean /\ ShortOffBoot /\ pc = "l427" /\ noinit_mode = 3 /\ boots = 4

\* the boot changed StrobeGroupFlag from clear to set
FlagBecameSet == snap.strobe = 0 /\ noinit_strobe # 0

\* C15 as stated: after a long-off boot, StrobeGroupFlag becomes set in a
\* short-off boot exactly when that boot is the third short-off boot in a
\* row with no line 425 reset in between.
C15_Original ==
  (pc = "l402" /\ ShortOffBoot /\ streak >= 0)
    => (FlagBecameSet <=> streak = 3)

\* C15 amended: after a long-off boot, StrobeGroupFlag becomes set in a
\* short-off boot exactly when the flag was clear at power-on and that
\* boot's increment leaves ShortPressCount above 2; this is at the earliest
\* the third short-off boot in a row with no line 425 reset in between (a
\* boot that loses power before its increment at line 374 does not count,
\* and one that loses power between lines 374 and 388 counts without
\* latching); at that boot StrobeModeIndex is 0 and the strobe is dispatched.
C15_FlagSetWhenCountExceedsTwo ==
  (pc = "l402" /\ ShortOffBoot /\ streak >= 0)
    => /\ FlagBecameSet <=> (noinit_short >= 3 /\ snap.strobe = 0)
       /\ FlagBecameSet
            => /\ streak >= 3
               /\ noinit_strobe = 1 /\ noinit_strobe_mode = 0
               /\ StrobeSelected(noinit_strobe, noinit_strobe_mode)

C15_Witness ==
  /\ pc = "l402" /\ ShortOffBoot /\ streak = 3 /\ FlagBecameSet
  /\ noinit_short = 3 /\ boots = 4

\* C16: every duty the monitor writes (0x05 or 0) is at most the level of
\* the dispatched fixed mode, and no monitor iteration raises the duty
\* register.
C16_MonitorOnlyLowersDuty ==
  [][ (pc = "monitor" /\ pc' \in MonitorPcs)
        => /\ PWM_LVL' <= PWM_LVL
           /\ PWM_LVL' <= FixedLevel(noinit_mode)
           /\ mon_write' # -1
                => (mon_write' \in {0, 5} /\ mon_write' = PWM_LVL'
                    /\ mon_write' <= FixedLevel(noinit_mode))
    ]_vars

\* the warning is written in mode 0, whose own level is the warning level
C16_Witness ==
  pc = "monitor" /\ noinit_mode = 0 /\ mon_write = 5 /\ PWM_LVL = 5

\* 0-based table index of the n-th value of a triangle walk over the table:
\* 0,1,...,50, then 50,49,...,1, repeated
TriIndex(n) ==
  LET len == Len(ramp_LUT)
      p == (n - 1) % (2 * len - 1)
  IN IF p < len THEN p ELSE 2 * len - 1 - p

\* C17: after every ramp step RampLevel equals the duty just written, which
\* is the table entry at the step's place in the triangle walk; losing power
\* during the ramp keeps RampLevel, and a short-off boot keeps the RampLevel
\* it found at power-on.
C17_RampPersistsTriangleWalk ==
  [][ /\ (pc' \in RampPcs /\ ramp_n' > 0)
         => /\ PWM_LVL' = ramp_LUT[TriIndex(ramp_n') + 1]
            /\ noinit_lvl' = PWM_LVL'
            /\ \E k \in 1 .. Len(ramp_LUT) : ramp_LUT[k] = noinit_lvl'
      /\ (pc \in RampPcs /\ pc' = "off") => noinit_lvl' = noinit_lvl
      /\ (pc = "off" /\ pc' = "l358" /\ noinit_decay = 0 /\ noinit_decay' = 0)
         => noinit_lvl' = noinit_lvl
      /\ ShortOffBoot' => noinit_lvl' = snap'.lvl
    ]_vars

\* a short-off boot after a session in which the ramp last wrote 245
C17_Witness ==
  pc = "l402" /\ ShortOffBoot /\ snap.lvl = 245 /\ noinit_lvl = 245

\* C18: once the monitor has written the warning level, the duty register
\* holds 0x05 for as long as the loop runs, also after a sample >= 123 has
\* reset the counter to 0; the only later write is the shutdown 0.
C18_WarnLevelKeptAfterReset ==
  (pc \in MonitorPcs /\ warn_at > 0)
    => /\ (pc = "monitor" => PWM_LVL = 5)
       /\ (pc = "halted" => PWM_LVL = 0)
       /\ mon_write \in {-1, 0, 5}
       /\ (samples[Len(samples)] >= 123 => (lowbatt_cnt = 0 /\ PWM_LVL = 5))

\* mode 3 (duty 0xFF), warned, then a good sample
C18_Witness ==
  /\ pc = "monitor" /\ noinit_mode = 3 /\ warn_at > 0
  /\ samples[Len(samples)] = 123 /\ lowbatt_cnt = 0 /\ PWM_LVL = 5

\* C19: when the device is halted, the monitor wrote the warning level at an
\* earlier sample of the same session, at least four samples were read after
\* that one, and every sample from the warning on is below 123.
C19_WarningPrecedesShutdown ==
  pc = "halted"
    => /\ warn_at > 0
       /\ Len(samples) - warn_at >= 4
       /\ \A k \in warn_at .. Len(samples) : samples[k] < 123

\* a good sample, four low samples (warning), four more (shutdown)
C19_Witness ==
  pc = "halted" /\ warn_at = 5 /\ Len(samples) = 9 /\ samples[1] = 123

\* C20: the strobe runs with the PWM timer never configured in that boot;
\* the regular switch at line 427 is reached only from the settle window,
\* with PWM configured, duty 0 and ShortPressCount reset, and every regular
\* behaviour runs with PWM configured.
C20_StrobeBeforePwmSetup ==
  [][ /\ pc' \in StrobePcs => ~pwm_on'
      /\ pc' = "l427" => (pwm_on' /\ PWM_LVL' = 0 /\ noinit_short' = 0)
      /\ (pc' = "l427" /\ pc # "l427") => pc = "l424"
      /\ (pc' = "l424" /\ pc # "l424") => (pc = "l412" /\ pwm_on')
      /\ pc' \in MonitorPcs \cup BattPcs \cup BeaconPcs \cup RampPcs
         => pwm_on'
    ]_vars

C20_Witness == pc = "strobe_on" /\ strobe_pin /\ ~pwm_on /\ PWM_LVL = 0

Spec == Init /\ [][Next]_vars

\* The CPU keeps executing the polling loop while powered, and a started ADC
\* conversion completes (a reading is ready on every polling round).
LiveSpec == Spec /\ WF_vars(MonitorSample) /\ WF_vars(AdcComplete)

SomeGoodSample == \E k \in 1 .. Len(samples) : samples[k] >= 123

\* C12: from the entry of the monitor loop, if power stays on and every
\* sample read is below 123, the device eventually halts with duty 0, at the
\* 8th sample.
C12_LowVoltageEventuallyShutsDown ==
  (pc = "monitor" /\ samples = << >>)
    ~> \/ pc = "off"
       \/ SomeGoodSample
       \/ (pc = "halted" /\ PWM_LVL = 0 /\ Len(samples) = 8)

\* mode 1, eight low samples, halted
C12_Witness ==
  /\ pc = "halted" /\ noinit_mode = 1 /\ PWM_LVL = 0 /\ Len(samples) = 8
  /\ ~SomeGoodSample
====
